---- MODULE Spec2Model ----
(***************************************************************************)
(* The AST of maud_macros (src/maud_macros/src/ast.rs) and its span        *)
(* queries.  Every span() method and the two helpers span_tokens and       *)
(* join_ranges are pure; the state machine draws one call (an operation    *)
(* and its argument) in Init and the matching action applies the           *)
(* operation and records what it returned.                                 *)
(*                                                                         *)
(* proc_macro2::Span is opaque: it is modelled as a source interval        *)
(* [lo, hi]; Span::call_site() is the one span with no source position.    *)
(* proc_macro_error::SpanRange is the pair {first, last} of Spans, and     *)
(* SpanRange::join_range(self, other) is {self.first, other.last}.  A      *)
(* TokenStream is modelled as the sequence of the spans of its tokens, the *)
(* only thing ast.rs reads of it.  Fields no span() reads and that carry   *)
(* no span of their own (Literal.content, Splice.expr, Toggler.cond) are   *)
(* left out.                                                               *)
(***************************************************************************)
EXTENDS Integers, Sequences, FiniteSets, TLC

VARIABLES op, arg, ret, pc

vars == <<op, arg, ret, pc>>

(* ------------------------------ bounds --------------------------------- *)

\* source positions are 1..MaxPos
MaxPos == 2

\* longest token run / range sequence handed to span_tokens / join_ranges
MaxLen == 3

\* most segments of a Markup::Special
MaxSegs == 2

(* ------------------------- Span and SpanRange -------------------------- *)

Pos == 1..MaxPos

ConcreteSpans == {s \in [lo : Pos, hi : Pos] : s.lo <= s.hi}

\* Span::call_site()
CallSiteSpan == [lo |-> 0, hi |-> 0]

Spans == ConcreteSpans \cup {CallSiteSpan}

\* SpanRange::single_span
single_span(span) == [first |-> span, last |-> span]

\* SpanRange::call_site
call_site == single_span(CallSiteSpan)

\* SpanRange::join_range
join_range(self, other) == [first |-> self.first, last |-> other.last]

\* what a call that panics leaves behind: no range at all (no operation of
\* ast.rs panics)
Panic == single_span([lo |-> -1, hi |-> -1])

(* ------------------------ span_tokens, join_ranges --------------------- *)

\* the empty check dropped: iter.next().unwrap()
join_ranges_unwrap(ranges) ==
    IF Len(ranges) = 0
    THEN Panic
    ELSE join_range(ranges[1], ranges[Len(ranges)])

\* iter.next() taken where iter.last() is meant
join_ranges_next(ranges) ==
    IF Len(ranges) = 0
    THEN call_site
    ELSE LET first == ranges[1]
             last  == IF Len(ranges) > 1 THEN ranges[2] ELSE first
         IN  join_range(first, last)

\* iter.last().unwrap_or(SpanRange::call_site())
join_ranges_orCallSite(ranges) ==
    IF Len(ranges) = 0
    THEN call_site
    ELSE LET first == ranges[1]
             last  == IF Len(ranges) > 1 THEN ranges[Len(ranges)] ELSE call_site
         IN  join_range(first, last)

\* last.join_range(first): the operands the wrong way round
join_ranges_swapped(ranges) ==
    IF Len(ranges) = 0
    THEN call_site
    ELSE LET first == ranges[1]
             last  == IF Len(ranges) > 1 THEN ranges[Len(ranges)] ELSE first
         IN  join_range(last, first)

join_ranges(ranges) ==
    IF Len(ranges) = 0
    THEN call_site
    ELSE LET first == ranges[1]
             last  == IF Len(ranges) > 1 THEN ranges[Len(ranges)] ELSE first
         IN  join_range(first, last)

\* only the first token looked at
span_tokens_firstOnly(tokens) ==
    IF Len(tokens) = 0 THEN call_site ELSE single_span(tokens[1])

span_tokens(tokens) ==
    join_ranges([i \in 1..Len(tokens) |-> single_span(tokens[i])])

(* ------------------------------ the AST -------------------------------- *)

None == [tag |-> "None"]

Some(v) == [tag |-> "Some", val |-> v]

Toggler_span(self) == self.cond_span

Block_span(self) == self.outer_span

ElementBody_span(self) ==
    IF self.tag = "Void" THEN self.semi_span ELSE Block_span(self.block)

Special_span(self) ==
    LET body_span == Block_span(self.body)
    IN  join_range(self.at_span, body_span)

\* the body left out of the join
Markup_Element_span_nameOnly(name, body) == span_tokens(name)

Markup_Element_span(name, body) ==
    LET name_span == span_tokens(name)
    IN  join_range(name_span, ElementBody_span(body))

\* at_span left out of the join
Markup_Let_span_tokensOnly(at_span, tokens) == span_tokens(tokens)

Markup_Let_span(at_span, tokens) == join_range(at_span, span_tokens(tokens))

Markup_Special_span(segments) ==
    join_ranges([i \in 1..Len(segments) |-> Special_span(segments[i])])

Markup_Match_span(at_span, arms_span) == join_range(at_span, arms_span)

Markup_span(self) ==
    CASE self.tag = "ParseError" -> self.span
      [] self.tag = "Block"      -> Block_span(self.block)
      [] self.tag = "Literal"    -> self.span
      [] self.tag = "Symbol"     -> span_tokens(self.symbol)
      [] self.tag = "Splice"     -> self.outer_span
      [] self.tag = "Element"    -> Markup_Element_span(self.name, self.body)
      [] self.tag = "Let"        -> Markup_Let_span(self.at_span, self.tokens)
      [] self.tag = "Special"    -> Markup_Special_span(self.segments)
      [] self.tag = "Match"      -> Markup_Match_span(self.at_span, self.arms_span)
      [] self.tag = "Patrial"    -> span_tokens(self.body)
      [] self.tag = "Builder"    -> span_tokens(self.tokens)

\* Empty never reports its toggler
AttrType_span_emptyNone(self) ==
    CASE self.tag = "Normal"   -> Some(Markup_span(self.value))
      [] self.tag = "Event"    -> Some(span_tokens(self.ty))
      [] self.tag = "Optional" -> Some(Toggler_span(self.toggler))
      [] self.tag = "Empty"    -> None

AttrType_span(self) ==
    CASE self.tag = "Normal"   -> Some(Markup_span(self.value))
      [] self.tag = "Event"    -> Some(span_tokens(self.ty))
      [] self.tag = "Optional" -> Some(Toggler_span(self.toggler))
      [] self.tag = "Empty"    ->
            IF self.toggler.tag = "Some"
            THEN Some(Toggler_span(self.toggler.val))
            ELSE None

\* the attribute type's span dropped
NamedAttr_span_nameOnly(self) == span_tokens(self.name)

NamedAttr_span(self) ==
    LET name_span      == span_tokens(self.name)
        attr_type_span == AttrType_span(self.attr_type)
    IN  IF attr_type_span.tag = "Some"
        THEN join_range(name_span, attr_type_span.val)
        ELSE name_span

\* the toggler ignored
Attr_Class_span_noToggler(dot_span, name, toggler) ==
    join_range(dot_span, Markup_span(name))

Attr_Class_span(dot_span, name, toggler) ==
    LET name_span     == Markup_span(name)
        dot_name_span == join_range(dot_span, name_span)
    IN  IF toggler.tag = "Some"
        THEN join_range(dot_name_span, toggler.val.cond_span)
        ELSE dot_name_span

Attr_Id_span(hash_span, name) == join_range(hash_span, Markup_span(name))

Attr_Event_span(name, ty) == join_range(span_tokens(name), span_tokens(ty))

Attr_Value_span(name, attr_type) ==
    LET name_span      == span_tokens(name)
        attr_type_span == AttrType_span(attr_type)
    IN  IF attr_type_span.tag = "Some"
        THEN join_range(name_span, attr_type_span.val)
        ELSE name_span

Attr_span(self) ==
    CASE self.tag = "Class" -> Attr_Class_span(self.dot_span, self.name, self.toggler)
      [] self.tag = "Id"    -> Attr_Id_span(self.hash_span, self.name)
      [] self.tag = "Named" -> NamedAttr_span(self.named_attr)
      [] self.tag = "Event" -> Attr_Event_span(self.name, self.ty)
      [] self.tag = "Value" -> Attr_Value_span(self.name, self.attr_type)

(* ------------------------- the calls Init draws ------------------------ *)

SeqsUpTo(S, n) == UNION {[1..k -> S] : k \in 0..n}

\* every SpanRange over the modelled spans
Ranges == [first : Spans, last : Spans]

\* the range of one token (a keyword, a marker, a delimited group)
SingleRanges == {single_span(s) : s \in Spans}

ConcreteSingles == {single_span(s) : s \in ConcreteSpans}

\* a TokenStream handed to span_tokens
TokenRuns == SeqsUpTo(Spans, MaxLen)

\* a TokenStream held in a field of a node: span_tokens reads its first and
\* its last token only, so none, one and two tokens are all its cases
FieldRuns == SeqsUpTo(Spans, 2)

\* sequences handed to join_ranges: ranges of single tokens up to MaxLen
\* (what span_tokens passes), and any one or two ranges
RangeSeqs == SeqsUpTo(SingleRanges, MaxLen) \cup SeqsUpTo(Ranges, 2)

Literal(span) == [tag |-> "Literal", span |-> span]

Symbol(symbol) == [tag |-> "Symbol", symbol |-> symbol]

\* the Markups that stand as children (a class name, an attribute value, a
\* block's markups): a parent reads nothing of a child but its span()
ChildMarkups ==
    {Literal(r) : r \in Ranges} \cup {Symbol(t) : t \in FieldRuns}

ChildMarkupSeqs ==
    SeqsUpTo(ChildMarkups, 1)
        \cup {<<Literal(a), Literal(b)>> : a, b \in ConcreteSingles}

Togglers == [cond_span : Ranges]

OptTogglers == {None} \cup {Some(t) : t \in Togglers}

AttrTypes ==
    [tag : {"Normal"}, value : ChildMarkups]
        \cup [tag : {"Event"}, ty : FieldRuns]
        \cup [tag : {"Optional"}, toggler : Togglers]
        \cup [tag : {"Empty"}, toggler : OptTogglers]

NamedAttrs == [name : FieldRuns, attr_type : AttrTypes]

Attrs ==
    [tag : {"Class"}, dot_span : Ranges, name : ChildMarkups,
     toggler : OptTogglers]
        \cup [tag : {"Id"}, hash_span : Ranges, name : ChildMarkups]
        \cup [tag : {"Named"}, named_attr : NamedAttrs]
        \cup [tag : {"Event"}, name : FieldRuns, ty : FieldRuns]
        \cup [tag : {"Value"}, name : FieldRuns, attr_type : AttrTypes]

\* the attributes of an Element, which Markup::span never reads
ChildAttrs ==
    [tag : {"Id"}, hash_span : SingleRanges,
     name : {Symbol(<<s>>) : s \in Spans}]

Blocks == [markups : ChildMarkupSeqs, outer_span : Ranges]

\* a block below the node under test: only its outer_span is read
ChildBlocks == [markups : {<<>>}, outer_span : Ranges]

ElementBodies ==
    [tag : {"Void"}, semi_span : Ranges]
        \cup [tag : {"Block"}, block : Blocks]

ChildBodies ==
    [tag : {"Void"}, semi_span : SingleRanges]
        \cup [tag : {"Block"}, block : ChildBlocks]

Specials == [at_span : Ranges, head : FieldRuns, body : ChildBlocks]

\* the segments of a Markup::Special
ChildSpecials ==
    [at_span : SingleRanges, head : {<<>>},
     body : [markups : {<<>>}, outer_span : SingleRanges]]

ChildArms ==
    [head : {<<s>> : s \in ConcreteSpans},
     body : [markups : {<<>>}, outer_span : ConcreteSingles]]

Markups ==
    [tag : {"ParseError"}, span : Ranges]
        \cup [tag : {"Block"}, block : Blocks]
        \cup [tag : {"Literal"}, span : Ranges]
        \cup [tag : {"Symbol"}, symbol : TokenRuns]
        \cup [tag : {"Splice"}, outer_span : Ranges]
        \cup [tag : {"Element"}, name : FieldRuns,
              attrs : SeqsUpTo(ChildAttrs, 1), body : ChildBodies]
        \cup [tag : {"Let"}, at_span : Ranges, tokens : FieldRuns]
        \cup [tag : {"Special"}, segments : SeqsUpTo(ChildSpecials, MaxSegs)]
        \cup [tag : {"Match"}, at_span : SingleRanges, head : FieldRuns,
              arms : SeqsUpTo(ChildArms, 1), arms_span : Ranges]
        \cup [tag : {"Patrial"}, body : TokenRuns]
        \cup [tag : {"Builder"}, tokens : TokenRuns]

\* nothing returned yet
NoRet == [pending |-> TRUE]

Init ==
    /\ pc = "call"
    /\ ret = NoRet
    /\ \/ op = "join_ranges"      /\ arg \in RangeSeqs
       \/ op = "span_tokens"      /\ arg \in TokenRuns
       \/ op = "Toggler_span"     /\ arg \in Togglers
       \/ op = "AttrType_span"    /\ arg \in AttrTypes
       \/ op = "NamedAttr_span"   /\ arg \in NamedAttrs
       \/ op = "Attr_span"        /\ arg \in Attrs
       \/ op = "Block_span"       /\ arg \in Blocks
       \/ op = "ElementBody_span" /\ arg \in ElementBodies
       \/ op = "Special_span"     /\ arg \in Specials
       \/ op = "Markup_span"      /\ arg \in Markups

JoinRanges ==
    /\ pc = "call"
    /\ op = "join_ranges"
    /\ ret' = join_ranges(arg)
    /\ pc' = "done"
    /\ UNCHANGED <<op, arg>>

SpanTokens ==
    /\ pc = "call"
    /\ op = "span_tokens"
    /\ ret' = span_tokens(arg)
    /\ pc' = "done"
    /\ UNCHANGED <<op, arg>>

TogglerSpan ==
    /\ pc = "call"
    /\ op = "Toggler_span"
    /\ ret' = Toggler_span(arg)
    /\ pc' = "done"
    /\ UNCHANGED <<op, arg>>

AttrTypeSpan ==
    /\ pc = "call"
    /\ op = "AttrType_span"
    /\ ret' = AttrType_span(arg)
    /\ pc' = "done"
    /\ UNCHANGED <<op, arg>>

NamedAttrSpan ==
    /\ pc = "call"
    /\ op = "NamedAttr_span"
    /\ ret' = NamedAttr_span(arg)
    /\ pc' = "done"
    /\ UNCHANGED <<op, arg>>

AttrSpan ==
    /\ pc = "call"
    /\ op = "Attr_span"
    /\ ret' = Attr_span(arg)
    /\ pc' = "done"
    /\ UNCHANGED <<op, arg>>

BlockSpan ==
    /\ pc = "call"
    /\ op = "Block_span"
    /\ ret' = Block_span(arg)
    /\ pc' = "done"
    /\ UNCHANGED <<op, arg>>

ElementBodySpan ==
    /\ pc = "call"
    /\ op = "ElementBody_span"
    /\ ret' = ElementBody_span(arg)
    /\ pc' = "done"
    /\ UNCHANGED <<op, arg>>

SpecialSpan ==
    /\ pc = "call"
    /\ op = "Special_span"
    /\ ret' = Special_span(arg)
    /\ pc' = "done"
    /\ UNCHANGED <<op, arg>>

MarkupSpan ==
    /\ pc = "call"
    /\ op = "Markup_span"
    /\ ret' = Markup_span(arg)
    /\ pc' = "done"
    /\ UNCHANGED <<op, arg>>

Next ==
    \/ JoinRanges
    \/ SpanTokens
    \/ TogglerSpan
    \/ AttrTypeSpan
    \/ NamedAttrSpan
    \/ AttrSpan
    \/ BlockSpan
    \/ ElementBodySpan
    \/ SpecialSpan
    \/ MarkupSpan

Spec == Init /\ [][Next]_vars

(* --------------------- reading a SpanRange as a range ------------------ *)

Done(o) == pc = "done" /\ op = o

\* a SpanRange starts where its first span starts and ends where its last ends
Start(r) == r.first.lo

End(r) == r.last.hi

Concrete(r) == r.first # CallSiteSpan /\ r.last # CallSiteSpan

\* p contains the start and the end of c
Within(p, c) ==
    /\ Start(p) <= Start(c) /\ Start(c) <= End(p)
    /\ Start(p) <= End(c) /\ End(c) <= End(p)

SameRange(p, q) == Start(p) = Start(q) /\ End(p) = End(q)

StrictlyLarger(p, q) ==
    /\ Start(p) <= Start(q)
    /\ End(q) <= End(p)
    /\ (Start(p) < Start(q) \/ End(q) < End(p))

Min(a, b) == IF a <= b THEN a ELSE b

Max(a, b) == IF a <= b THEN b ELSE a

SmallestEnclosing(j, a, b) ==
    /\ Start(j) = Min(Start(a), Start(b))
    /\ End(j) = Max(End(a), End(b))

\* source order: every range has a position and does not end before it
\* starts, and neither the starts nor the ends ever step back
InOrder(cs) ==
    /\ \A i \in DOMAIN cs : Concrete(cs[i]) /\ Start(cs[i]) <= End(cs[i])
    /\ \A i, j \in DOMAIN cs :
          i < j => Start(cs[i]) <= Start(cs[j]) /\ End(cs[i]) <= End(cs[j])

(* ------------------------- the children of a node ---------------------- *)

OptTogglerSpans(toggler) ==
    IF toggler.tag = "Some" THEN <<toggler.val.cond_span>> ELSE <<>>

AttrTypeChildren(t) ==
    CASE t.tag = "Normal"   -> <<Markup_span(t.value)>>
      [] t.tag = "Event"    -> <<span_tokens(t.ty)>>
      [] t.tag = "Optional" -> <<t.toggler.cond_span>>
      [] t.tag = "Empty"    -> OptTogglerSpans(t.toggler)

NamedAttrChildren(n) == <<span_tokens(n.name)>> \o AttrTypeChildren(n.attr_type)

IsComposite(o, a) ==
    \/ o = "Markup_span"
         /\ a.tag \in {"Element", "Let", "Special", "Match", "Block"}
    \/ o = "Attr_span"
    \/ o = "Special_span"
    \/ o = "NamedAttr_span"

\* the spans of the children that follow one another in the source, in the
\* order of the node's fields
OrderedChildren(o, a) ==
    CASE o = "Markup_span" /\ a.tag = "Element" ->
            <<span_tokens(a.name)>>
                \o [i \in 1..Len(a.attrs) |-> Attr_span(a.attrs[i])]
                \o <<ElementBody_span(a.body)>>
      [] o = "Markup_span" /\ a.tag = "Let" ->
            <<a.at_span, span_tokens(a.tokens)>>
      [] o = "Markup_span" /\ a.tag = "Special" ->
            [i \in 1..Len(a.segments) |-> Special_span(a.segments[i])]
      [] o = "Markup_span" /\ a.tag = "Match" ->
            <<a.at_span, span_tokens(a.head), a.arms_span>>
      [] o = "Attr_span" /\ a.tag = "Class" ->
            <<a.dot_span, Markup_span(a.name)>> \o OptTogglerSpans(a.toggler)
      [] o = "Attr_span" /\ a.tag = "Id" ->
            <<a.hash_span, Markup_span(a.name)>>
      [] o = "Attr_span" /\ a.tag = "Named" ->
            NamedAttrChildren(a.named_attr)
      [] o = "Attr_span" /\ a.tag = "Event" ->
            <<span_tokens(a.name), span_tokens(a.ty)>>
      [] o = "Attr_span" /\ a.tag = "Value" ->
            <<span_tokens(a.name)>> \o AttrTypeChildren(a.attr_type)
      [] o = "Special_span" ->
            <<a.at_span, span_tokens(a.head), Block_span(a.body)>>
      [] o = "NamedAttr_span" ->
            NamedAttrChildren(a)
      [] OTHER -> <<>>

\* the spans of the children that lie inside a span the node stores: the
\* markups of a Block inside outer_span, the arms of a Match inside arms_span
EnclosedChildren(o, a) ==
    CASE o = "Markup_span" /\ a.tag = "Block" ->
            [i \in 1..Len(a.block.markups) |-> Markup_span(a.block.markups[i])]
      [] o = "Markup_span" /\ a.tag = "Match" ->
            [i \in 1..Len(a.arms) |-> span_tokens(a.arms[i].head)]
                \o [i \in 1..Len(a.arms) |-> Block_span(a.arms[i].body)]
      [] OTHER -> <<>>

Enclosure(o, a) ==
    IF a.tag = "Block" THEN a.block.outer_span ELSE a.arms_span

ChildSpans(o, a) == OrderedChildren(o, a) \o EnclosedChildren(o, a)

\* the tree is laid out as a parser lays it out
SourceOrdered(o, a) ==
    /\ InOrder(OrderedChildren(o, a))
    /\ \A i \in DOMAIN EnclosedChildren(o, a) :
          LET c == EnclosedChildren(o, a)[i]
          IN  /\ Concrete(c)
              /\ Start(c) <= End(c)
              /\ Within(Enclosure(o, a), c)

(* ------------------------------- C1 ----------------------------------- *)

\* every child has a source position, its first span neither starting nor
\* ending after its last
Positioned(cs) ==
    \A i \in DOMAIN cs :
        /\ Concrete(cs[i])
        /\ cs[i].first.lo <= cs[i].last.lo
        /\ cs[i].first.hi <= cs[i].last.hi

\* C1 as stated: for every composite node, whatever tree it is, the span
\* returned by span() contains the start and the end of the span of every
\* child (here: of the trees all of whose children have a source position).
C1_SpanContainsChildren ==
    (pc = "done" /\ IsComposite(op, arg) /\ Positioned(ChildSpans(op, arg))) =>
        \A i \in DOMAIN ChildSpans(op, arg) : Within(ret, ChildSpans(op, arg)[i])

\* C1: for every composite node whose children are laid out in source order
\* (each with a source position, starts and ends never stepping back along
\* the fields, a Block's markups inside its outer_span and a Match's arms
\* inside its arms_span), span() contains the start and the end of the span
\* of every child.
C1_SpanContainsOrderedChildren ==
    (pc = "done" /\ IsComposite(op, arg) /\ SourceOrdered(op, arg)) =>
        \A i \in DOMAIN ChildSpans(op, arg) : Within(ret, ChildSpans(op, arg)[i])

C1_Witness ==
    /\ Done("Markup_span")
    /\ arg.tag = "Element"
    /\ Len(arg.attrs) = 1
    /\ arg.body.tag = "Block"
    /\ SourceOrdered(op, arg)
    /\ Start(ret) < End(ret)
    /\ StrictlyLarger(ret, span_tokens(arg.name))

(* ------------------------------- C2 ----------------------------------- *)

\* C2 as stated: join(a, b) is the smallest range containing both a and b,
\* for any two ranges that have a source position, and join(a, b) and
\* join(b, a) denote the same range.
C2_JoinSmallestEnclosing ==
    (Done("join_ranges") /\ Len(arg) = 2) =>
        LET a == arg[1]
            b == arg[2]
        IN  (InOrder(<<a>>) /\ InOrder(<<b>>)) =>
                /\ SmallestEnclosing(ret, a, b)
                /\ SameRange(ret, join_ranges(<<b, a>>))

\* C2: join(a, b) runs from the first span of a to the last span of b.  It
\* is the smallest range containing both when a and b come in source order
\* (a starts no later than b, b ends no earlier than a); join(a, b) and
\* join(b, a) denote the same range exactly when a and b start at the same
\* place and end at the same place.
C2_JoinFirstToLast ==
    (Done("join_ranges") /\ Len(arg) = 2) =>
        LET a == arg[1]
            b == arg[2]
        IN  /\ ret.first = a.first
            /\ ret.last = b.last
            /\ InOrder(<<a, b>>) => SmallestEnclosing(ret, a, b)
            /\ SameRange(ret, join_ranges(<<b, a>>)) <=> SameRange(a, b)

C2_Witness ==
    /\ Done("join_ranges")
    /\ Len(arg) = 2
    /\ InOrder(<<arg[1], arg[2]>>)
    /\ End(arg[1]) < Start(arg[2])
    /\ SmallestEnclosing(ret, arg[1], arg[2])
    /\ ~SameRange(ret, join_ranges(<<arg[2], arg[1]>>))

(* ------------------------------- C3 ----------------------------------- *)

\* C3: for a non-empty sequence join_ranges returns join(first, last); the
\* elements strictly between the first and the last do not influence it:
\* with any other element in the middle the result is the same.
C3_JoinRangesFirstLast ==
    (Done("join_ranges") /\ Len(arg) >= 1) =>
        /\ ret = join_range(arg[1], arg[Len(arg)])
        /\ \A i \in 2..(Len(arg) - 1) : \A m \in Ranges :
              join_ranges([arg EXCEPT ![i] = m]) = ret

C3_Witness ==
    /\ Done("join_ranges")
    /\ Len(arg) = 3
    /\ Concrete(arg[1]) /\ Concrete(arg[2]) /\ Concrete(arg[3])
    /\ End(arg[2]) > End(ret)
    /\ arg[2] # arg[1]
    /\ arg[2] # arg[3]

(* ------------------------------- C4 ----------------------------------- *)

\* C4: join_ranges of the empty sequence returns the call-site range, the
\* same value at every such call.
C4_EmptyIsCallSite ==
    (Done("join_ranges") /\ Len(arg) = 0) => ret = call_site

C4_Witness ==
    /\ Done("join_ranges")
    /\ Len(arg) = 0
    /\ ret = single_span(CallSiteSpan)

(* ------------------------------- C5 ----------------------------------- *)

\* C5: join_ranges of the one-element sequence <<s>> is s.
C5_SingleElement ==
    (Done("join_ranges") /\ Len(arg) = 1) => ret = arg[1]

C5_Witness ==
    /\ Done("join_ranges")
    /\ Len(arg) = 1
    /\ Concrete(arg[1])
    /\ arg[1].first # arg[1].last
    /\ ret = arg[1]

(* ------------------------------- C6 ----------------------------------- *)

\* C6: span_tokens returns the call-site range for an empty token run, and
\* for a non-empty one the join of the range of its first token with the
\* range of its last token, whatever the tokens in between.
C6_SpanTokens ==
    Done("span_tokens") =>
        IF Len(arg) = 0
        THEN ret = call_site
        ELSE ret = join_range(single_span(arg[1]), single_span(arg[Len(arg)]))

C6_Witness ==
    /\ Done("span_tokens")
    /\ Len(arg) = 3
    /\ arg[1] # arg[3]
    /\ arg[2] \notin {arg[1], arg[3]}
    /\ \A i \in 1..3 : arg[i] # CallSiteSpan
    /\ ret = [first |-> arg[1], last |-> arg[3]]

(* ------------------------------- C7 ----------------------------------- *)

\* C7: AttrType::span() is None exactly for Empty with no toggler; Normal
\* and Event give Some span, Optional and Empty with a toggler give Some of
\* the toggler's cond_span.
C7_AttrTypeOptionality ==
    Done("AttrType_span") =>
        /\ ret = None <=> (arg.tag = "Empty" /\ arg.toggler = None)
        /\ arg.tag \in {"Normal", "Event"} => ret.tag = "Some"
        /\ arg.tag = "Optional" => ret = Some(arg.toggler.cond_span)
        /\ (arg.tag = "Empty" /\ arg.toggler # None) =>
              ret = Some(arg.toggler.val.cond_span)

C7_Witness ==
    /\ Done("AttrType_span")
    /\ arg.tag = "Empty"
    /\ arg.toggler.tag = "Some"
    /\ Concrete(arg.toggler.val.cond_span)
    /\ ret = Some(arg.toggler.val.cond_span)

(* ------------------------------- C8 ----------------------------------- *)

NameAndType(o, a) ==
    IF o = "NamedAttr_span"
    THEN [name |-> a.name, attr_type |-> a.attr_type]
    ELSE IF a.tag = "Value"
         THEN [name |-> a.name, attr_type |-> a.attr_type]
         ELSE [name |-> a.named_attr.name, attr_type |-> a.named_attr.attr_type]

\* C8: NamedAttr::span() and the Value arm of Attr::span() are exactly the
\* span of the name's token run when AttrType::span() is None, and the name
\* span joined with the AttrType's span when it is Some.
C8_NamedAttrFallback ==
    (pc = "done" /\ (op = "NamedAttr_span"
                        \/ (op = "Attr_span" /\ arg.tag \in {"Value", "Named"}))) =>
        LET n == NameAndType(op, arg)
            t == AttrTypeChildren(n.attr_type)
        IN  IF t = <<>>
            THEN ret = span_tokens(n.name)
            ELSE ret = join_range(span_tokens(n.name), t[1])

C8_Witness ==
    /\ Done("Attr_span")
    /\ arg.tag = "Value"
    /\ arg.attr_type.tag = "Empty"
    /\ arg.attr_type.toggler = None
    /\ Len(arg.name) = 2
    /\ arg.name[1] # arg.name[2]
    /\ \A i \in 1..2 : arg.name[i] # CallSiteSpan
    /\ ret = [first |-> arg.name[1], last |-> arg.name[2]]

(* ------------------------------- C9 ----------------------------------- *)

IsClass(withToggler) ==
    /\ Done("Attr_span")
    /\ arg.tag = "Class"
    /\ (arg.toggler.tag = "Some") = withToggler

DotName == join_range(arg.dot_span, Markup_span(arg.name))

\* C9 as stated: the span of a Class with a toggler starts at the dot and
\* ends at the end of the toggler's cond_span, and is strictly larger than
\* the span of the dot and the name; without a toggler it is the dot span
\* joined with the name's span (here: of the Class attributes whose dot,
\* name and condition all have a source position).
C9_ClassTogglerStrictlyLarger ==
    /\ (IsClass(TRUE) /\ Positioned(OrderedChildren(op, arg))) =>
          /\ ret.first = arg.dot_span.first
          /\ ret.last = arg.toggler.val.cond_span.last
          /\ StrictlyLarger(ret, DotName)
    /\ IsClass(FALSE) => ret = DotName

\* C9: the span of a Class with a toggler starts at the dot and ends at the
\* end of the toggler's cond_span; it is strictly larger than the span of
\* the dot and the name exactly when the cond_span ends beyond the name (as
\* it does in .foo[cond]).  Without a toggler it is the dot span joined with
\* the name's span.  An Id holds no toggler: its span is the hash span
\* joined with the name's span.
C9_ClassTogglerExtends ==
    /\ IsClass(TRUE) =>
          /\ ret.first = arg.dot_span.first
          /\ ret.last = arg.toggler.val.cond_span.last
          /\ StrictlyLarger(ret, DotName)
                <=> End(arg.toggler.val.cond_span) > End(Markup_span(arg.name))
    /\ IsClass(FALSE) => ret = DotName
    /\ (Done("Attr_span") /\ arg.tag = "Id") =>
          /\ "toggler" \notin DOMAIN arg
          /\ ret = join_range(arg.hash_span, Markup_span(arg.name))

C9_Witness ==
    /\ IsClass(TRUE)
    /\ InOrder(OrderedChildren(op, arg))
    /\ End(Markup_span(arg.name)) < Start(arg.toggler.val.cond_span)
    /\ StrictlyLarger(ret, DotName)

(* ------------------------------- C10 ---------------------------------- *)

AllConcrete(rs) == \A i \in DOMAIN rs : Concrete(rs[i])

TokensConcrete(ts) == \A i \in DOMAIN ts : ts[i] # CallSiteSpan

\* every span and every token the Markup stores has a source position
StoredConcrete(m) ==
    CASE m.tag \in {"ParseError", "Literal"} -> Concrete(m.span)
      [] m.tag = "Splice"  -> Concrete(m.outer_span)
      [] m.tag = "Block"   -> Concrete(m.block.outer_span)
      [] m.tag = "Symbol"  -> TokensConcrete(m.symbol)
      [] m.tag = "Patrial" -> TokensConcrete(m.body)
      [] m.tag = "Builder" -> TokensConcrete(m.tokens)
      [] m.tag = "Element" ->
            TokensConcrete(m.name) /\ Concrete(ElementBody_span(m.body))
      [] m.tag = "Let"     -> Concrete(m.at_span) /\ TokensConcrete(m.tokens)
      [] m.tag = "Match"   -> Concrete(m.at_span) /\ Concrete(m.arms_span)
      [] m.tag = "Special" ->
            \A i \in DOMAIN m.segments :
                /\ Concrete(m.segments[i].at_span)
                /\ Concrete(m.segments[i].body.outer_span)

\* the Markup hands join_ranges an empty sequence
EmptySequence(m) ==
    \/ m.tag = "Special" /\ m.segments = <<>>
    \/ m.tag = "Symbol" /\ m.symbol = <<>>
    \/ m.tag = "Patrial" /\ m.body = <<>>
    \/ m.tag = "Builder" /\ m.tokens = <<>>

====
